---- MODULE Spec2Model ----
(***************************************************************************)
(* State-machine model of process_video (src/app.py), the single request   *)
(* handler of the emotion-detection service: open the uploaded video, run  *)
(* the classifier on each frame, filter / annotate / record each detected  *)
(* face, write every frame to the output video, release both streams and   *)
(* upload the result.                                                      *)
(*                                                                         *)
(* Encodings.                                                              *)
(*  - Python None is None == <<>>, a present value v is Some(v) == <<v>>.  *)
(*  - The classifier's scores are DeepFace percentages (0..100); they are  *)
(*    modelled as integer percents and float(score) keeps the value.       *)
(*  - `w >= frame_width * 0.95` is computed on integers as                 *)
(*    100*w >= 95*frame_width (the float product is exact enough that the  *)
(*    comparison with an integer w agrees with the rational one).          *)
(*  - The list returned by the classifier is held as its length (nresult) *)
(*    and the element the for loop is at (face, the faceIdx-th one); an    *)
(*    element is drawn when the loop reaches it, since nothing reads it    *)
(*    earlier.                                                             *)
(*  - A frame is [src, shape, overlay]: the index of the source frame it   *)
(*    was decoded from, its (width, height) and the number of drawing      *)
(*    calls that have modified it.                                         *)
(***************************************************************************)
EXTENDS Integers, Sequences, FiniteSets, TLC

VARIABLES
    pc,             \* position of the handler
    hasVideo,       \* 'video' in request.files
    openable,       \* the container can be opened by cv2.VideoCapture
    nframes,        \* number of decodable frames of the input video
    firstShape,     \* (width, height) of the first decodable frame
    cap,            \* input capture handle: "none" | "open" | "closed" | "released"
    out,            \* output writer handle: "none" | "open" | "released"
    pos,            \* read position of cap (frames consumed)
    dims,           \* (width, height) fixed from the first frame
    frame_count,
    emotions_data,
    frame,          \* the frame of the current iteration
    nresult,        \* len(result) of the list DeepFace.analyze returned
    faceIdx,        \* number of elements `for face in result` has fetched
    face,           \* the loop variable of `for face in result`
    exc,            \* exception raised inside the per-frame try block
    skipped,        \* frames logged "[WARN] Frame k skipped" (line 159)
    written,        \* frames received by out.write, in order
    outFile,        \* the output file exists on local storage
    uploadCalls,    \* number of s3.upload_file calls
    uploaded,       \* "none" | "ok" | "failed"
    response        \* the response returned to the caller

vars == <<pc, hasVideo, openable, nframes, firstShape, cap, out, pos, dims,
          frame_count, emotions_data, frame, nresult, faceIdx, face, exc,
          written, outFile, uploadCalls, uploaded, response, skipped>>

(***************************************************************************)
(* Bounds of the model.                                                    *)
(***************************************************************************)
MaxFrames == 2
MaxFaces == 2

None == <<>>
Some(v) == <<v>>

\* (width, height) of decoded frames
RawShapes == {<<20, 20>>, <<40, 30>>}

NoFrame == [src |-> 0, shape |-> <<0, 0>>, overlay |-> 0]

(***************************************************************************)
(* Faces the classifier may return.  regionOK: face['region'] carries      *)
(* x, y, w, h.  emoOK: face['emotion'] has an entry for the dominant       *)
(* label.  draws: number of the four drawing calls (rectangle, rectangle,  *)
(* putText, putText) that complete on this face's data; 4 = all of them.   *)
(***************************************************************************)
Face(rok, x, y, w, h, lab, eok, sc, d) ==
    [regionOK |-> rok, x |-> x, y |-> y, w |-> w, h |-> h,
     dominant_emotion |-> lab, emoOK |-> eok, score |-> sc, draws |-> d]

Faces ==
    { Face(FALSE, 0, 0, 0, 0, "happy", TRUE, 80, 4),      \* no region
      Face(TRUE, 5, 5, 0, 10, "sad", FALSE, 0, 4),        \* empty, no score
      Face(TRUE, 0, 0, 38, 29, "neutral", TRUE, 100, 4),  \* 95% of the frame
      Face(TRUE, 0, 4, 20, 10, "happy", TRUE, 80, 4),     \* wide in 20x20
      Face(TRUE, 0, 4, 20, 10, "happy", FALSE, 0, 4),     \* no score
      Face(TRUE, 0, 4, 20, 10, "happy", TRUE, 80, 2) }    \* putText raises

\* value of `face` before the first iteration
NoFace == Face(FALSE, 0, 0, 0, 0, "", FALSE, 0, 0)

(***************************************************************************)
(* Pure helpers of the per-face body.                                      *)
(***************************************************************************)
\* line 91: cv2.resize(frame, (width, height)) on a size mismatch
Resize(shape, d) == IF shape # d THEN d ELSE shape

\* line 101
IsEmptyRegion(w, h) == w = 0 \/ h = 0

\* faulty variant of line 114: `or` in place of `and`
IsFullFrameEither(w, h, frame_width, frame_height) ==
    100 * w >= 95 * frame_width \/ 100 * h >= 95 * frame_height

\* line 114
IsFullFrame(w, h, frame_width, frame_height) ==
    100 * w >= 95 * frame_width /\ 100 * h >= 95 * frame_height

\* lines 103-112 and 116-125
NullRecord(fc) ==
    [frame |-> fc, face_detected |-> FALSE, emotion |-> None,
     confidence |-> None, x |-> None, y |-> None,
     width |-> None, height |-> None]

\* lines 146-155
FaceRecord(fc, f) ==
    [frame |-> fc, face_detected |-> TRUE, emotion |-> Some(f.dominant_emotion),
     confidence |-> Some(f.score), x |-> Some(f.x), y |-> Some(f.y),
     width |-> Some(f.w), height |-> Some(f.h)]

\* faulty variant of line 158: `except` narrowed to the classifier's error
CaughtDetectionOnly(e) == e = "DetectionError"

\* line 158: `except Exception` catches every exception the body raises
Caught(e) == e \in {"DetectionError", "KeyError", "cv2.error"}

\* faulty variant of line 77: the rewind is missing
RewindMissing(p) == p

\* line 77: cap.set(cv2.CAP_PROP_POS_FRAMES, 0)
Rewind(p) == 0

(***************************************************************************)
(* Initial state: a request and an input video.                            *)
(***************************************************************************)
Init ==
    /\ pc = "idle"
    /\ hasVideo \in BOOLEAN
    /\ openable \in BOOLEAN
    /\ nframes \in 0..MaxFrames
    /\ firstShape \in RawShapes
    /\ cap = "none"
    /\ out = "none"
    /\ pos = 0
    /\ dims = <<0, 0>>
    /\ frame_count = 0
    /\ emotions_data = <<>>
    /\ frame = NoFrame
    /\ nresult = 0
    /\ faceIdx = 0
    /\ face = NoFace
    /\ exc = "none"
    /\ skipped = {}
    /\ written = <<>>
    /\ outFile = FALSE
    /\ uploadCalls = 0
    /\ uploaded = "none"
    /\ response = [status |-> 0]

\* cap.read() succeeds: the capture is open and a decodable frame is left
CanRead == cap = "open" /\ pos < nframes

\* lines 52-53
MissingPayload ==
    /\ pc = "idle"
    /\ ~hasVideo
    /\ response' = [status |-> 400, error |-> "No video file provided"]
    /\ pc' = "done"
    /\ UNCHANGED <<hasVideo, openable, nframes, firstShape, cap, out, pos,
                   dims, frame_count, emotions_data, frame, nresult, faceIdx,
                   face, exc, written, outFile, uploadCalls, uploaded,
                   skipped>>

\* lines 55-66
OpenStream ==
    /\ pc = "idle"
    /\ hasVideo
    /\ cap' = IF openable THEN "open" ELSE "closed"
    /\ pc' = "first_read"
    /\ UNCHANGED <<hasVideo, openable, nframes, firstShape, out, pos, dims,
                   frame_count, emotions_data, frame, nresult, faceIdx, face,
                   exc, written, outFile, uploadCalls, uploaded, response,
                   skipped>>

\* lines 68-70: the first read fails, the handler returns
FirstReadFails ==
    /\ pc = "first_read"
    /\ ~CanRead
    /\ response' = [status |-> 500, error |-> "Failed to read video frames."]
    /\ pc' = "done"
    /\ UNCHANGED <<hasVideo, openable, nframes, firstShape, cap, out, pos,
                   dims, frame_count, emotions_data, frame, nresult, faceIdx,
                   face, exc, written, outFile, uploadCalls, uploaded,
                   skipped>>

\* lines 68-72
FirstRead ==
    /\ pc = "first_read"
    /\ CanRead
    /\ pos' = pos + 1
    /\ frame' = [src |-> pos + 1, shape |-> firstShape, overlay |-> 0]
    /\ dims' = firstShape
    /\ pc' = "init_writer"
    /\ UNCHANGED <<hasVideo, openable, nframes, firstShape, cap, out,
                   frame_count, emotions_data, nresult, faceIdx, face, exc,
                   written, outFile, uploadCalls, uploaded, response, skipped>>

\* lines 73-79
InitWriter ==
    /\ pc = "init_writer"
    /\ out' = "open"
    /\ outFile' = TRUE
    /\ pos' = Rewind(pos)
    /\ frame_count' = 0
    /\ emotions_data' = <<>>
    /\ pc' = "loop"
    /\ UNCHANGED <<hasVideo, openable, nframes, firstShape, cap, dims, frame,
                   nresult, faceIdx, face, exc, written, uploadCalls,
                   uploaded, response, skipped>>

\* lines 81-84: the loop ends
LoopEnd ==
    /\ pc = "loop"
    /\ ~CanRead
    /\ pc' = "release"
    /\ UNCHANGED <<hasVideo, openable, nframes, firstShape, cap, out, pos,
                   dims, frame_count, emotions_data, frame, nresult, faceIdx,
                   face, exc, written, outFile, uploadCalls, uploaded,
                   response, skipped>>

\* lines 81-91: read the next frame, count it, resize it on a mismatch
LoopRead ==
    /\ pc = "loop"
    /\ CanRead
    /\ \E shape \in RawShapes :
          /\ pos = 0 => shape = firstShape
          /\ frame' = [src |-> pos + 1, shape |-> Resize(shape, dims), overlay |-> 0]
    /\ pos' = pos + 1
    /\ frame_count' = frame_count + 1
    /\ nresult' = 0
    /\ faceIdx' = 0
    /\ face' = NoFace
    /\ exc' = "none"
    /\ pc' = "analyze"
    /\ UNCHANGED <<hasVideo, openable, nframes, firstShape, cap, out, dims,
                   emotions_data, written, outFile, uploadCalls, uploaded,
                   response, skipped>>

\* line 95: the classifier raises
AnalyzeRaises ==
    /\ pc = "analyze"
    /\ exc' = "DetectionError"
    /\ pc' = "except"
    /\ UNCHANGED <<hasVideo, openable, nframes, firstShape, cap, out, pos,
                   dims, frame_count, emotions_data, frame, nresult, faceIdx,
                   face, written, outFile, uploadCalls, uploaded, response,
                   skipped>>

\* line 95: the classifier returns a list of 0..MaxFaces faces
Analyze ==
    /\ pc = "analyze"
    /\ \E n \in 0..MaxFaces : nresult' = n
    /\ pc' = "for"
    /\ UNCHANGED <<hasVideo, openable, nframes, firstShape, cap, out, pos,
                   dims, frame_count, emotions_data, frame, faceIdx, face,
                   exc, written, outFile, uploadCalls, uploaded, response,
                   skipped>>

\* line 96: the for loop fetches the next face
ForNext ==
    /\ pc = "for"
    /\ faceIdx < nresult
    /\ \E f \in Faces : face' = f
    /\ faceIdx' = faceIdx + 1
    /\ pc' = "face"
    /\ UNCHANGED <<hasVideo, openable, nframes, firstShape, cap, out, pos,
                   dims, frame_count, emotions_data, frame, nresult, exc,
                   written, outFile, uploadCalls, uploaded, response, skipped>>

\* line 96: the for loop is exhausted, the try block completes
ForEnd ==
    /\ pc = "for"
    /\ faceIdx = nresult
    /\ pc' = "write"
    /\ UNCHANGED <<hasVideo, openable, nframes, firstShape, cap, out, pos,
                   dims, frame_count, emotions_data, frame, nresult, faceIdx,
                   face, exc, written, outFile, uploadCalls, uploaded,
                   response, skipped>>

\* faulty variant of lines 103, 116, 146: insert(0, record)
PrependRecord(log, rec) == <<rec>> \o log

\* lines 103, 116, 146: emotions_data.append(record)
AppendRecord(log, rec) == Append(log, rec)

\* line 97: face['region'] lacks a key
FaceRegionError ==
    /\ pc = "face"
    /\ ~face.regionOK
    /\ exc' = "KeyError"
    /\ pc' = "except"
    /\ UNCHANGED <<hasVideo, openable, nframes, firstShape, cap, out, pos,
                   dims, frame_count, emotions_data, frame, nresult, faceIdx,
                   face, written, outFile, uploadCalls, uploaded, response,
                   skipped>>

\* lines 100-113: empty region, null record, continue
FaceEmpty ==
    /\ pc = "face"
    /\ face.regionOK
    /\ IsEmptyRegion(face.w, face.h)
    /\ emotions_data' = AppendRecord(emotions_data, NullRecord(frame_count))
    /\ pc' = "for"
    /\ UNCHANGED <<hasVideo, openable, nframes, firstShape, cap, out, pos,
                   dims, frame_count, frame, nresult, faceIdx, face, exc,
                   written, outFile, uploadCalls, uploaded, response, skipped>>

\* lines 114-126: full-frame box, null record, continue
FaceFullFrame ==
    /\ pc = "face"
    /\ face.regionOK
    /\ ~IsEmptyRegion(face.w, face.h)
    /\ IsFullFrame(face.w, face.h, frame.shape[1], frame.shape[2])
    /\ emotions_data' = AppendRecord(emotions_data, NullRecord(frame_count))
    /\ pc' = "for"
    /\ UNCHANGED <<hasVideo, openable, nframes, firstShape, cap, out, pos,
                   dims, frame_count, frame, nresult, faceIdx, face, exc,
                   written, outFile, uploadCalls, uploaded, response, skipped>>

\* the face passed both filters (lines 101 and 114)
PassedFilters ==
    /\ pc = "face"
    /\ face.regionOK
    /\ ~IsEmptyRegion(face.w, face.h)
    /\ ~IsFullFrame(face.w, face.h, frame.shape[1], frame.shape[2])

\* lines 128-129: face['emotion'] has no entry for the dominant label
FaceEmotionError ==
    /\ PassedFilters
    /\ ~face.emoOK
    /\ exc' = "KeyError"
    /\ pc' = "except"
    /\ UNCHANGED <<hasVideo, openable, nframes, firstShape, cap, out, pos,
                   dims, frame_count, emotions_data, frame, nresult, faceIdx,
                   face, written, outFile, uploadCalls, uploaded, response,
                   skipped>>

\* lines 131-145: a drawing call raises after face.draws calls have drawn
FaceDrawError ==
    /\ PassedFilters
    /\ face.emoOK
    /\ face.draws < 4
    /\ frame' = [frame EXCEPT !.overlay = @ + face.draws]
    /\ exc' = "cv2.error"
    /\ pc' = "except"
    /\ UNCHANGED <<hasVideo, openable, nframes, firstShape, cap, out, pos,
                   dims, frame_count, emotions_data, nresult, faceIdx, face,
                   written, outFile, uploadCalls, uploaded, response, skipped>>

\* lines 128-157: the four drawing calls, then the record
FaceAnnotate ==
    /\ PassedFilters
    /\ face.emoOK
    /\ face.draws = 4
    /\ frame' = [frame EXCEPT !.overlay = @ + 4]
    /\ emotions_data' = AppendRecord(emotions_data, FaceRecord(frame_count, face))
    /\ pc' = "for"
    /\ UNCHANGED <<hasVideo, openable, nframes, firstShape, cap, out, pos,
                   dims, frame_count, nresult, faceIdx, face, exc, written,
                   outFile, uploadCalls, uploaded, response, skipped>>

\* lines 158-159: the handler of the per-frame try block logs the frame
Except ==
    /\ pc = "except"
    /\ pc' = IF Caught(exc) THEN "write" ELSE "crashed"
    /\ skipped' = IF Caught(exc) THEN skipped \cup {frame_count} ELSE skipped
    /\ UNCHANGED <<hasVideo, openable, nframes, firstShape, cap, out, pos,
                   dims, frame_count, emotions_data, frame, nresult, faceIdx,
                   face, exc, written, outFile, uploadCalls, uploaded,
                   response>>

\* line 161: out.write(frame)
WriteFrame ==
    /\ pc = "write"
    /\ written' = Append(written, frame)
    /\ pc' = "loop"
    /\ UNCHANGED <<hasVideo, openable, nframes, firstShape, cap, out, pos,
                   dims, frame_count, emotions_data, frame, nresult, faceIdx,
                   face, exc, outFile, uploadCalls, uploaded, response,
                   skipped>>

\* lines 163-164: cap.release(); out.release()
ReleaseStreams ==
    /\ pc = "release"
    /\ cap' = "released"
    /\ out' = "released"
    /\ pc' = "upload"
    /\ UNCHANGED <<hasVideo, openable, nframes, firstShape, pos, dims,
                   frame_count, emotions_data, frame, nresult, faceIdx, face,
                   exc, written, outFile, uploadCalls, uploaded, response,
                   skipped>>

\* lines 171-173: s3.upload_file is called
UploadCall ==
    /\ pc = "upload"
    /\ uploadCalls' = uploadCalls + 1
    /\ pc' = "uploading"
    /\ UNCHANGED <<hasVideo, openable, nframes, firstShape, cap, out, pos,
                   dims, frame_count, emotions_data, frame, nresult, faceIdx,
                   face, exc, written, outFile, uploaded, response, skipped>>

\* lines 174-175, 180-185: the upload returned
UploadSucceeds ==
    /\ pc = "uploading"
    /\ uploaded' = "ok"
    /\ response' = [status |-> 200,
                    message |-> "Video processed successfully.",
                    output_video_path |-> "outputs/processed.mp4",
                    s3_url |-> "https://bucket.s3.amazonaws.com/videos/processed.mp4",
                    results |-> emotions_data]
    /\ pc' = "done"
    /\ UNCHANGED <<hasVideo, openable, nframes, firstShape, cap, out, pos,
                   dims, frame_count, emotions_data, frame, nresult, faceIdx,
                   face, exc, written, outFile, uploadCalls, skipped>>

\* faulty variant of lines 176-178: the upload is tried again
UploadFailsRetry ==
    /\ pc = "uploading"
    /\ uploaded' = "failed"
    /\ pc' = "upload"
    /\ UNCHANGED <<hasVideo, openable, nframes, firstShape, cap, out, pos,
                   dims, frame_count, emotions_data, frame, nresult, faceIdx,
                   face, exc, written, outFile, uploadCalls, response,
                   skipped>>

\* faulty variant of lines 176-178: the records leak into the error payload
UploadFailsPartial ==
    /\ pc = "uploading"
    /\ uploaded' = "failed"
    /\ response' = [status |-> 500, error |-> "Failed to upload to S3",
                    results |-> emotions_data]
    /\ pc' = "done"
    /\ UNCHANGED <<hasVideo, openable, nframes, firstShape, cap, out, pos,
                   dims, frame_count, emotions_data, frame, nresult, faceIdx,
                   face, exc, written, outFile, uploadCalls, skipped>>

\* lines 176-178: the upload raised
UploadFails ==
    /\ pc = "uploading"
    /\ uploaded' = "failed"
    /\ response' = [status |-> 500, error |-> "Failed to upload to S3"]
    /\ pc' = "done"
    /\ UNCHANGED <<hasVideo, openable, nframes, firstShape, cap, out, pos,
                   dims, frame_count, emotions_data, frame, nresult, faceIdx,
                   face, exc, written, outFile, uploadCalls, skipped>>

Next ==
    \/ MissingPayload
    \/ OpenStream
    \/ FirstReadFails
    \/ FirstRead
    \/ InitWriter
    \/ LoopEnd
    \/ LoopRead
    \/ AnalyzeRaises
    \/ Analyze
    \/ ForNext
    \/ ForEnd
    \/ FaceRegionError
    \/ FaceEmpty
    \/ FaceFullFrame
    \/ FaceEmotionError
    \/ FaceDrawError
    \/ FaceAnnotate
    \/ Except
    \/ WriteFrame
    \/ ReleaseStreams
    \/ UploadCall
    \/ UploadSucceeds
    \/ UploadFails

Spec == Init /\ [][Next]_vars

\* the handler runs to completion: a single thread with blocking calls
FairSpec == Init /\ [][Next]_vars /\ WF_vars(Next)

TypeOK ==
    /\ pc \in {"idle", "first_read", "init_writer", "loop", "analyze", "for",
               "face", "except", "write", "release", "upload", "uploading",
               "done", "crashed"}
    /\ cap \in {"none", "open", "closed", "released"}
    /\ out \in {"none", "open", "released"}
    /\ pos \in 0..nframes
    /\ frame_count \in 0..nframes
    /\ nresult \in 0..MaxFaces
    /\ faceIdx \in 0..nresult
    /\ face \in Faces \cup {NoFace}
    /\ Len(emotions_data) <= nframes * MaxFaces

(***************************************************************************)
(* Properties.                                                             *)
(***************************************************************************)
Last(q) == q[Len(q)]

IsPrefix(p, q) == Len(p) <= Len(q) /\ \A i \in 1..Len(p) : p[i] = q[i]

\* the records carrying frame index k, in log order
RecordsOf(k) == SelectSeq(emotions_data, LAMBDA r : r.frame = k)

InIteration == pc \in {"analyze", "for", "face", "except", "write"}

\* C1: every frame the loop reads is written exactly once, in source order;
\* while a frame is being processed it is the one not yet written, and once
\* the writer is released the output holds exactly the nframes frames of the
\* input (the dimension probe and the rewind add or drop none).
C1_FrameCount ==
    /\ \A i \in 1..Len(written) : written[i].src = i
    /\ InIteration => Len(written) = frame_count - 1 /\ frame.src = frame_count
    /\ pc \in {"loop", "release", "upload", "uploading"} => Len(written) = frame_count
    /\ out = "released" => Len(written) = nframes

\* C1 witness: a finished two-frame job, one frame skipped by the handler
\* and one annotated, both written.
C1_Witness ==
    /\ pc = "done"
    /\ out = "released"
    /\ nframes = 2
    /\ Len(written) = 2
    /\ 1 \in skipped
    /\ written[2].overlay > 0

\* C2 (as claimed): a frame whose try block raised has no record in the log
\* and is written without overlay.
C2_FailureIsolation ==
    \A k \in skipped :
        /\ Len(RecordsOf(k)) = 0
        /\ k <= Len(written) => written[k].overlay = 0

\* C3: no exception of the loop body escapes (the handler never crashes and
\* the except clause always resumes with the write of the frame), and from
\* any point of the loop the job reaches the upload call with both streams
\* released.
C3_NeverAborts ==
    /\ [](pc # "crashed")
    /\ [][pc = "except" => pc' = "write"]_vars
    /\ [](pc \in {"loop", "analyze", "for", "face", "except", "write"} =>
            <>(pc = "uploading" /\ cap = "released" /\ out = "released"))

\* C3 witness: the upload is reached although an earlier frame raised and a
\* later frame was processed.
C3_Witness ==
    /\ pc = "uploading"
    /\ 1 \in skipped
    /\ nframes = 2
    /\ Len(written) = 2
    /\ Len(RecordsOf(2)) > 0

C5_ValidRecord ==
    /\ \A i \in 1..Len(emotions_data) :
          emotions_data[i].face_detected =>
             /\ emotions_data[i].emotion # Some("")
             /\ emotions_data[i].confidence[1] >= 0
             /\ emotions_data[i].confidence[1] <= 1
    /\ (/\ pc = "for"
        /\ faceIdx > 0
        /\ Len(emotions_data) > 0
        /\ Last(emotions_data).face_detected
        /\ Last(emotions_data).frame = frame_count) =>
          LET r == Last(emotions_data)
          IN  /\ r.x = Some(face.x) /\ r.y = Some(face.y)
              /\ r.width = Some(face.w) /\ r.height = Some(face.h)
              /\ r.emotion = Some(face.dominant_emotion)
              /\ r.confidence = Some(face.score)

\* record r was made from detection f of the current frame
MadeFrom(r, f) ==
    IF r.face_detected
    THEN /\ r.x = Some(f.x) /\ r.y = Some(f.y)
         /\ r.width = Some(f.w) /\ r.height = Some(f.h)
         /\ r.emotion = Some(f.dominant_emotion)
    ELSE \/ f.w = 0
         \/ f.h = 0
         \/ 100 * f.w >= 95 * frame.shape[1] /\ 100 * f.h >= 95 * frame.shape[2]

\* C6: the log only grows at its end; frame indices are 1-based, lie within
\* the frames read so far and never decrease along the log; between two
\* detections the current frame has one record per detection handled so
\* far, the last of them made from the detection just handled (so the
\* records of a frame are contiguous and in the classifier's order).
C6_AppendOnlyLog ==
    /\ [][IsPrefix(emotions_data, emotions_data')]_vars
    /\ [](\A i \in 1..Len(emotions_data) :
            /\ emotions_data[i].frame \in 1..frame_count
            /\ i < Len(emotions_data) =>
                 emotions_data[i].frame <= emotions_data[i + 1].frame)
    /\ [](pc = "for" =>
            /\ Len(RecordsOf(frame_count)) = faceIdx
            /\ faceIdx > 0 =>
                 /\ Last(emotions_data).frame = frame_count
                 /\ MadeFrom(Last(emotions_data), face))

\* C6 witness: two different records of frame 1 followed by a record of
\* frame 2.
C6_Witness ==
    /\ Len(emotions_data) = 3
    /\ emotions_data[1].frame = 1
    /\ emotions_data[2].frame = 1
    /\ emotions_data[3].frame = 2
    /\ emotions_data[1] # emotions_data[2]

\* the order of the orchestration states
Stage(p) ==
    CASE p = "idle" -> 0
      [] p \in {"first_read", "init_writer"} -> 1
      [] p \in {"loop", "analyze", "for", "face", "except", "write"} -> 2
      [] p = "release" -> 3
      [] p = "upload" -> 4
      [] p = "uploading" -> 5
      [] OTHER -> 6

\* C7: the handler only moves forward through idle, stream opened, loop,
\* streams closed, uploading, finished; the uploader is called at most once,
\* only when the loop is over and both handles are released, never again
\* after a failure, and nothing is read or written once it has been called.
C7_OrchestrationOrder ==
    /\ [][Stage(pc) <= Stage(pc')]_vars
    /\ [](uploadCalls <= 1)
    /\ [][uploadCalls' # uploadCalls =>
            /\ Stage(pc) = 4 /\ Stage(pc') = 5
            /\ cap = "released" /\ out = "released"
            /\ uploaded = "none"]_vars
    /\ [][uploadCalls > 0 =>
            /\ pos' = pos /\ written' = written /\ frame_count' = frame_count
            /\ cap' = "released" /\ out' = "released"]_vars

\* C7 witness: the single upload of a job that wrote frames has failed.
C7_Witness ==
    /\ pc = "done"
    /\ uploaded = "failed"
    /\ uploadCalls = 1
    /\ Len(written) = 2

\* C8 (as claimed): when the handler has returned, no handle it opened is
\* still open.
C8_StreamsReleased ==
    pc = "done" => cap # "open" /\ out # "open"

\* C9: a response is either the full success payload, with the whole log of
\* all nframes frames, or an error payload with nothing but the error; it is
\* an error exactly when the payload is missing, the first frame cannot be
\* read or the upload failed, and after a failed upload the output file is
\* still on local storage.
C9_AllOrNothing ==
    /\ response.status \in {0, 200, 400, 500}
    /\ response.status = 0 <=> pc # "done"
    /\ response.status = 200 =>
          /\ DOMAIN response = {"status", "message", "output_video_path",
                                "s3_url", "results"}
          /\ response.results = emotions_data
          /\ frame_count = nframes
    /\ response.status \in {400, 500} => DOMAIN response = {"status", "error"}
    /\ pc = "done" =>
          (response.status # 200 <=>
             \/ ~hasVideo
             \/ ~(openable /\ nframes > 0)
             \/ uploaded = "failed")
    /\ uploaded = "failed" => outFile /\ response.status = 500

\* C9 witness: an upload failure after records were produced.
C9_Witness ==
    /\ pc = "done"
    /\ uploaded = "failed"
    /\ outFile
    /\ Len(emotions_data) > 0
    /\ response.status = 500

\* C10 (as claimed): a detection that passed both filters has its face
\* record whether or not its drawing succeeded, and at the end of a frame
\* whose classifier call returned the frame has one record per returned
\* face.
C10_DrawingIndependent ==
    /\ (/\ pc \in {"for", "except", "write"}
        /\ faceIdx > 0
        /\ face.regionOK /\ face.emoOK
        /\ face.w # 0 /\ face.h # 0
        /\ ~(/\ 100 * face.w >= 95 * frame.shape[1]
             /\ 100 * face.h >= 95 * frame.shape[2])) =>
          /\ Len(emotions_data) > 0
          /\ Last(emotions_data) =
                [frame |-> frame_count, face_detected |-> TRUE,
                 emotion |-> Some(face.dominant_emotion),
                 confidence |-> Some(face.score),
                 x |-> Some(face.x), y |-> Some(face.y),
                 width |-> Some(face.w), height |-> Some(face.h)]
    /\ (pc = "write" /\ exc # "DetectionError") =>
          Len(RecordsOf(frame_count)) = nresult

====
